---- MODULE Spec2Model ----
(***************************************************************************)
(* Watch party clients: the command-line client (src/watchparty.py,        *)
(* watchparty_client) and the Qt client (src/watchpartyui.py,              *)
(* WatchPartyWindow).  Both join a room over a websocket, estimate the     *)
(* server clock from pongs, filter inbound room states by version and      *)
(* steer a local mpv player towards the authoritative state.               *)
(*                                                                         *)
(* One behaviour of the model is one run of one of the two programs; the   *)
(* variable client says which.  Times and positions are integers in        *)
(* milliseconds.  The websocket peer, the wall clock, the user and the mpv *)
(* engine are the environment: what they deliver is drawn from small sets. *)
(*                                                                         *)
(* Spec is either program with every handler and loop, over one            *)
(* connection per run.  SpecReconnect is the Qt client over two            *)
(* connections, with its connect, disconnect and loop handlers only.       *)
(* SpecIntents is the Qt client over two connections with its connect and  *)
(* disconnect handlers and the user's intents.                             *)
(* SpecDrift, SpecClock and SpecDefaults are sessions without failures in  *)
(* which the player positions, the pongs and the fields of state messages  *)
(* range over more values.                                                 *)
(***************************************************************************)
EXTENDS Integers, Sequences, FiniteSets, TLC

\* ------------------------------------------------------------------ bounds

\* Highest version a state message carries.
MaxVersion == 2
Versions == 0..MaxVersion
\* Connections a run may open, by the order in which they open: the sessions
\* of SpecReconnect, and the single session of Spec.
Conns == {1, 2}
SpecConns == {1}

\* Values of the wall clock ms() as read by a handler.
NowValues == {3000}
\* The snapshots inbound state messages carry: all fields absent (each reads
\* as its default), and playing with an updatedAt that is ahead of the
\* estimated server time before the first pong and behind it afterwards.
Shapes == {[isPlaying |-> FALSE, positionMs |-> 0, updatedAt |-> 0],
           [isPlaying |-> TRUE, positionMs |-> 1000, updatedAt |-> 5000]}
\* t / serverTimeMs of inbound pongs.
PongTValues == {1000}
PongServerValues == {5000}
\* Positions (time-pos, ms) the mpv engine reports; playback and seeking are
\* the engine's own business, so each query draws its answer.
PlayerPosValues == {0}
\* Durations (ms) the engine reports, slider values and chat lengths of the
\* user's intents.
DurationValues == {0, 4000}
SliderValues == {500}
ChatLengths == {501}
\* Seconds typed after seek / fwd / back, in tenths of a millisecond.
TypedTenths == {15}

\* ------------------------------------------------------- program constants

\* CLI dead zone, seconds 0.6 in ms, and its (identical) large-drift branch, 2.0 s.
CliSeekThresholdMs == 600
CliBigDriftMs == 2000
\* GUI bands, seconds 0.25 and 1.5 in ms.
GuiSyncedMs == 250
GuiHardSeekMs == 1500
\* GUI speed nudge: 1.0 +- 0.10, in 1/10000.
SpeedUnit == 10000
SpeedClamp == 1000
\* GUI seek step, SEEK_STEP_SECONDS 10 in ms.
SeekStepMs == 10000
\* chat text limit
ChatLimit == 500
\* range of the seek slider
SliderMax == 1000

VARIABLES
    client,            \* "cli" or "gui": which program this run is
    ws,                \* the connection held (GUI self.ws, CLI ws); 0 = None
    open,              \* connections whose transport is open
    nextConn,          \* id of the next connection to be opened
    last_version,      \* CLI last_state_version, GUI self.last_version
    server_offset_ms,  \* clock offset estimate
    state,             \* GUI self.state, the held RoomState snapshot
    player,            \* the mpv engine: its pause flag
    has_player,        \* GUI: self.player is not None
    connecting,        \* GUI self._connecting
    tpc,               \* GUI: where the running _toggle_connect is suspended
    checked,           \* GUI connectBtn.isChecked()
    controls,          \* GUI: controls enabled
    status,            \* GUI status label
    ui_tick_running,   \* GUI self._ui_tick_running
    rloop,             \* per connection: position of its inbound loop
    hb,                \* per connection: position of its ping/heartbeat loop
    stdin,             \* CLI: position of the stdin task
    pass,              \* CLI: the locals of the apply_state call last started
    passes,            \* apply_state calls in flight
    maxDelivered,      \* highest version of the state messages handled in this session; 0: none
    ev,                \* the step just taken: its handler and input
    calls,             \* player queries (with their answers) and commands of that step
    sent               \* messages written to a connection by that step

vars == <<client, ws, open, nextConn, last_version, server_offset_ms, state,
          player, has_player, connecting, tpc, checked, controls, status,
          ui_tick_running, rloop, hb, stdin, pass, passes, maxDelivered,
          ev, calls, sent>>

\* groups used in UNCHANGED
shared == <<last_version, server_offset_ms, state>>
conn == <<ws, open, nextConn>>
gui == <<has_player, connecting, tpc, checked, controls, status, ui_tick_running>>
loops == <<rloop, hb, stdin>>
recon == <<pass, passes, maxDelivered>>

\* --------------------------------------------------------------- helpers

Max(a, b) == IF a >= b THEN a ELSE b
Min(a, b) == IF a <= b THEN a ELSE b
Abs(x) == IF x < 0 THEN -x ELSE x

clamp(x, lo, hi) == Max(lo, Min(hi, x))

\* int(x / 2) for the float x / 2: truncation towards zero
TruncHalf(x) == IF x >= 0 THEN x \div 2 ELSE -((-x) \div 2)

RoomState(p, pos, at, v, by) ==
    [isPlaying |-> p, positionMs |-> pos, updatedAt |-> at, version |-> v, updatedBy |-> by]

\* the status label: its text and the version it shows (0: none)
Status(text, v) == [text |-> text, v |-> v]

\* an outbound message: written on connection c by the loop of connection
\* `by` (0: by a handler that is no loop)
Out(type, action, arg, c, by) == [type |-> type, action |-> action, arg |-> arg, conn |-> c, by |-> by]

\* a player command that takes a value, with that value: set_speed in
\* 1/10000, seek in ms
Arg(cmd, arg) == [cmd |-> cmd, arg |-> arg]

\* a step: its handler, the version (or flag) it was given, the connection
\* whose loop took it, for an accepted state the estimated server time, the
\* target (ms) it computed and the position (ms) the player answered, and the
\* valued commands it issued; clock is the value of ms() the step read and
\* pong the <<t, serverTimeMs>> of the pong it handled
EvA(kind, v, c, server_now, target, cur, args) ==
    [kind |-> kind, v |-> v, conn |-> c, server_now |-> server_now, target |-> target,
     cur |-> cur, args |-> args, clock |-> 0, pong |-> <<>>]
EvClock(e, clock) == [e EXCEPT !.clock = clock]
EvPong(c, m, t1) == [EvA("pong", 0, c, 0, 0, 0, <<>>) EXCEPT !.clock = t1, !.pong = <<m.t, m.serverTimeMs>>]
EvT(kind, v, c, server_now, target) == EvA(kind, v, c, server_now, target, 0, <<>>)
Ev(kind, v, c) == EvT(kind, v, c, 0, 0)

\* player calls as they appear in calls: a query with its answer, a command
QPos(avail) == IF avail THEN "time_pos=value" ELSE "time_pos=unset"
QPause(avail, val) == IF ~avail THEN "pause=unset" ELSE IF val THEN "pause=true" ELSE "pause=false"
\* x occurs in the sequence cs
Has(cs, x) == \E i \in DOMAIN cs : cs[i] = x
Commands == {"play", "pause", "set_speed", "seek"}
IsCommand(x) == x \in Commands
CommandsOf(cs) == SelectSeq(cs, IsCommand)

\* CLI: no apply_state call started yet.  stage is the await a started call
\* is suspended at ("q_pos", "q_pause", "c_pause", "c_seek") or how it ended
\* ("done", "skipped", "failed").
NoPass == [v |-> 0, playing |-> FALSE, positionMs |-> 0, updatedAt |-> 0,
           server_now |-> 0, target_ms |-> 0, target |-> 0, cur |-> 0,
           paused |-> FALSE, calls |-> <<>>, stage |-> "none"]

\* ------------------------------------------------------- inbound messages

\* {type:"state", state:{...}}
StateMsgs == {[version |-> v, isPlaying |-> sh.isPlaying, positionMs |-> sh.positionMs,
               updatedAt |-> sh.updatedAt, updatedBy |-> "u1"] : v \in Versions, sh \in Shapes}
\* {type:"pong", t, serverTimeMs}
PongMsgs == [t : PongTValues, serverTimeMs : PongServerValues]
\* messages that carry nothing the clients keep; "malformed" is a payload
\* json.loads rejects, "unknown" an object with a type no branch handles.
InfoTypes == {"welcome", "presence", "chat", "error", "unknown", "malformed"}

\* what a time-pos query answers: unset, or a value
PosAnswers == {[avail |-> FALSE, val |-> 0]} \cup [avail : {TRUE}, val : PlayerPosValues]
\* what an IPC query of the CLI does: answers a value, answers unset, raises
Outcomes == {"value", "unset", "raise"}

\* ------------------------------------------------- reconciliation, pure

\* the filter with < for <=: the version just applied passes again
StaleStrict(version, last) == version < last

\* the filter also rejecting a version that skips one
StaleOrGap(version, last) == version <= last \/ version > last + 1

\* the version filter of apply_state / _apply_state
Stale(version, last) == version <= last

\* watchparty.py: target_ms
TargetMsCLI(playing, position_ms, updated_at, server_now) ==
    IF playing THEN position_ms + (server_now - updated_at) ELSE position_ms

\* watchpartyui.py: target_ms
TargetMsGUI(playing, position_ms, updated_at, server_now) ==
    IF playing THEN position_ms + Max(0, server_now - updated_at) ELSE position_ms

\* target_s = max(0.0, target_ms / 1000.0), kept in ms
TargetS(target_ms) == Max(0, target_ms)

\* the play/pause correction without its second branch
PauseCmdsPlayOnly(playing, paused) ==
    IF playing /\ paused THEN <<"play">> ELSE <<>>

\* the play/pause correction: the player command issued for a snapshot flag
\* and an observed pause flag
PauseCmds(playing, paused) ==
    IF playing /\ paused THEN <<"play">>
    ELSE IF (~playing) /\ (~paused) THEN <<"pause">>
    ELSE <<>>

\* the time correction seeking from the threshold on
CliDriftCmdsInclusive(drift) ==
    IF Abs(drift) >= CliSeekThresholdMs THEN <<"seek">> ELSE <<>>

\* watchparty.py: the time correction
CliDriftCmds(drift) ==
    IF Abs(drift) > CliBigDriftMs THEN <<"seek">>
    ELSE IF Abs(drift) > CliSeekThresholdMs THEN <<"seek">>
    ELSE <<>>

\* watchpartyui.py: the drift correction
GuiDriftCmds(drift) ==
    IF Abs(drift) < GuiSyncedMs THEN <<"set_speed">>
    ELSE IF Abs(drift) < GuiHardSeekMs THEN <<"set_speed">>
    ELSE <<"set_speed", "seek">>

\* the drift correction's speed without the clamp
GuiSpeedUnclamped(drift) ==
    IF Abs(drift) < GuiSyncedMs THEN SpeedUnit
    ELSE IF Abs(drift) < GuiHardSeekMs THEN SpeedUnit + drift
    ELSE SpeedUnit

\* speed commanded by the drift correction, in 1/10000
GuiSpeed(drift) ==
    IF Abs(drift) < GuiSyncedMs THEN SpeedUnit
    ELSE IF Abs(drift) < GuiHardSeekMs THEN SpeedUnit + clamp(drift, -SpeedClamp, SpeedClamp)
    ELSE SpeedUnit

\* the valued commands of the GUI drift correction, in the order of
\* GuiDriftCmds
GuiDriftArgs(drift, target) ==
    IF Abs(drift) < GuiHardSeekMs THEN <<Arg("set_speed", GuiSpeed(drift))>>
    ELSE <<Arg("set_speed", GuiSpeed(drift)), Arg("seek", target)>>

\* the valued command of the CLI time correction: mpv.seek_to(target_s)
CliDriftArgs(drift, target) ==
    IF CliDriftCmds(drift) = <<>> THEN <<>> ELSE <<Arg("seek", target)>>

\* pong handler: rtt and the new offset
Rtt(t1, t0) == Max(1, t1 - t0)
\* the offset with the whole round trip taken off
PongOffsetFullRtt(server_time, t0, t1) == server_time - t0 - Rtt(t1, t0)
PongOffset(server_time, t0, t1) == TruncHalf(2 * server_time - 2 * t0 - Rtt(t1, t0))

\* the engine's pause flag after the play/pause commands in cmds
PausedAfter(paused, cmds) ==
    IF cmds = <<>> THEN paused ELSE cmds[Len(cmds)] = "pause"

\* ------------------------------------------------------------------- Init

Init ==
    /\ client \in {"cli", "gui"}
    /\ ws = 0
    /\ open = {}
    /\ nextConn = 1
    /\ last_version = 0
    /\ server_offset_ms = 0
    /\ state = RoomState(FALSE, 0, 0, 0, "")
    /\ player = [paused |-> FALSE]
    /\ has_player = (client = "cli")
    /\ connecting = FALSE
    /\ tpc = "idle"
    /\ checked = FALSE
    /\ controls = FALSE
    /\ status = Status("Disconnected", 0)
    /\ ui_tick_running = FALSE
    /\ rloop = [c \in Conns |-> "none"]
    /\ hb = [c \in Conns |-> "none"]
    /\ stdin = "none"
    /\ pass = NoPass
    /\ passes = 0
    /\ maxDelivered = 0
    /\ ev = Ev("init", 0, 0)
    /\ calls = <<>>
    /\ sent = <<>>

\* for a ping step: 1 when the step before it was a ping too, so that the
\* earlier ping has had no answer when this one is sent
Unanswered == IF ev.kind = "ping" THEN 1 ELSE 0

\* what a step that touches neither the player nor a connection leaves behind
Quiet(kind, v, c) ==
    /\ ev' = Ev(kind, v, c)
    /\ calls' = <<>>
    /\ sent' = <<>>

\* a send that writes whether or not a connection is held
SendOnAny(w, type, action, arg, by) == <<Out(type, action, arg, w, by)>>

\* _send / send: a message written to connection w by loop or handler `by`;
\* nothing when no connection is held or when the send raises on a closed
\* transport
SendOn(w, type, action, arg, by) ==
    IF w # 0 /\ w \in open THEN <<Out(type, action, arg, w, by)>> ELSE <<>>

\* ------------------------------------------- environment: transport, engine

\* the peer closes connection c, or the network fails
TransportDrop(c) ==
    /\ c \in open
    /\ open' = open \ {c}
    /\ Quiet("drop", 0, c)
    /\ UNCHANGED <<client, ws, nextConn, shared, player, gui, loops, recon>>

\* the engine changes its pause flag by itself (end of file with keep-open,
\* a key pressed in the mpv window of the CLI)
PlayerEnv ==
    /\ has_player
    /\ player' = [player EXCEPT !.paused = ~player.paused]
    /\ Quiet("engine", 0, 0)
    /\ UNCHANGED <<client, conn, shared, gui, loops, recon>>

\* ------------------------------------------- GUI: connect and disconnect

\* a click on connectBtn while a toggle is in progress: Qt toggles the
\* button, _toggle_connect returns at the _connecting guard
GuiClickIgnored ==
    /\ client = "gui"
    /\ connecting
    /\ checked' = ~checked
    /\ Quiet("click", 0, 0)
    /\ UNCHANGED <<client, conn, shared, player, has_player, connecting, tpc, controls,
                   status, ui_tick_running, loops, recon>>

\* click, button now checked: _connect up to `await websockets.connect`
GuiClickConnect ==
    /\ client = "gui"
    /\ ~connecting
    /\ ~checked
    /\ checked' = TRUE
    /\ connecting' = TRUE
    /\ tpc' = "connecting"
    /\ has_player' = TRUE
    /\ ev' = Ev("click", 0, 0)
    /\ calls' = <<"loadfile">>
    /\ sent' = <<>>
    /\ UNCHANGED <<client, conn, shared, player, controls, status, ui_tick_running,
                   loops, recon>>

\* click, button now checked, but no room / no file / libmpv fails: _connect
\* returns early with the button unchecked
GuiClickConnectRejected ==
    /\ client = "gui"
    /\ ~connecting
    /\ ~checked
    /\ checked' = FALSE
    /\ status' = Status("Rejected", 0)
    /\ Quiet("click", 0, 0)
    /\ UNCHANGED <<client, conn, shared, player, has_player, connecting, tpc, controls,
                   ui_tick_running, loops, recon>>

\* websockets.connect succeeded and opened the run's c-th connection: the
\* rest of _connect; joined: the send of the join went through (when it
\* raises no loop is started)
GuiConnectOk(c, joined) ==
    /\ client = "gui"
    /\ tpc = "connecting"
    /\ c = nextConn
    /\ ws' = nextConn
    /\ nextConn' = nextConn + 1
    /\ last_version' = 0
    /\ maxDelivered' = 0
    /\ controls' = TRUE
    /\ status' = Status("Connected", 0)
    /\ IF joined
       THEN /\ open' = open \cup {nextConn}
            /\ sent' = <<Out("join", "", 0, nextConn, 0)>>
            /\ rloop' = [rloop EXCEPT ![nextConn] = "run"]
            /\ hb' = [hb EXCEPT ![nextConn] = "run"]
       ELSE /\ open' = open
            /\ sent' = <<>>
            /\ UNCHANGED <<rloop, hb>>
    /\ connecting' = FALSE
    /\ tpc' = "idle"
    /\ ev' = Ev("connected", 0, nextConn)
    /\ calls' = <<>>
    /\ UNCHANGED <<client, server_offset_ms, state, player, has_player, checked,
                   ui_tick_running, stdin, pass, passes>>

\* websockets.connect raised
GuiConnectFail ==
    /\ client = "gui"
    /\ tpc = "connecting"
    /\ status' = Status("ConnectFailed", 0)
    /\ checked' = FALSE
    /\ connecting' = FALSE
    /\ tpc' = "idle"
    /\ Quiet("connectfail", 0, 0)
    /\ UNCHANGED <<client, conn, shared, player, has_player, controls, ui_tick_running,
                   loops, recon>>

\* click, button now unchecked: _disconnect up to `await self.ws.close()`,
\* or all of it when no connection is held
GuiClickDisconnect ==
    /\ client = "gui"
    /\ ~connecting
    /\ checked
    /\ checked' = FALSE
    /\ controls' = FALSE
    /\ IF ws # 0
       THEN /\ open' = open \ {ws}
            /\ connecting' = TRUE
            /\ tpc' = "closing"
            /\ UNCHANGED <<ws, status>>
       ELSE /\ ws' = 0
            /\ status' = Status("Disconnected", 0)
            /\ UNCHANGED <<open, connecting, tpc>>
    /\ Quiet("click", 0, 0)
    /\ UNCHANGED <<client, nextConn, shared, player, has_player, ui_tick_running,
                   loops, recon>>

\* the close returned: the rest of _disconnect and of _toggle_connect
GuiDisconnectDone ==
    /\ client = "gui"
    /\ tpc = "closing"
    /\ ws' = 0
    /\ status' = Status("Disconnected", 0)
    /\ connecting' = FALSE
    /\ tpc' = "idle"
    /\ Quiet("disconnected", 0, 0)
    /\ UNCHANGED <<client, open, nextConn, shared, player, has_player, checked, controls,
                   ui_tick_running, loops, recon>>

\* ------------------------------------------------- GUI: the inbound loop

\* the drift-correction commands issued when the k-th of them raises (k < 1:
\* none raises): the try/except drops the rest
Attempted(cmds, k) ==
    IF k \in 1..Len(cmds) THEN SubSeq(cmds, 1, k) ELSE cmds

\* _apply_state for a version that passed the filter, on clock reading now,
\* query answers pos and pauseAvail, and fail saying which command raises (0:
\* none, 1: the play/pause command, 2 and 3: the first and second command of
\* the drift correction):
\* the calls made, the engine's pause flag afterwards, the status label, the
\* target, whether the pass was skipped and whether an exception leaves the
\* handler
GuiApply(m, now, pos, pauseAvail, fail) ==
    LET snap == RoomState(m.isPlaying, m.positionMs, m.updatedAt, m.version, m.updatedBy)
        server_now == now + server_offset_ms
        target_ms == TargetMsGUI(snap.isPlaying, snap.positionMs, snap.updatedAt, server_now)
        target_s == TargetS(target_ms)
        queries == <<QPos(pos.avail), QPause(pauseAvail, player.paused)>>
        drift == target_s - pos.val
        pc == PauseCmds(snap.isPlaying, player.paused)
        dc == Attempted(GuiDriftCmds(drift), fail - 1)
        base == [calls |-> <<>>, paused |-> player.paused, status |-> status,
                 server_now |-> server_now, target |-> target_s,
                 cur |-> 0, args |-> <<>>,
                 skipped |-> TRUE, raised |-> FALSE]
    IN  IF ~has_player THEN base
        ELSE IF ~pos.avail \/ ~pauseAvail THEN [base EXCEPT !.calls = queries]
        ELSE IF pc # <<>> /\ fail = 1
        THEN [base EXCEPT !.calls = queries \o pc, !.status = Status("RecvError", 0),
                          !.cur = pos.val, !.skipped = FALSE, !.raised = TRUE]
        ELSE [base EXCEPT !.calls = queries \o pc \o dc,
                          !.cur = pos.val,
                          !.args = Attempted(GuiDriftArgs(drift, target_s), fail - 1),
                          !.paused = PausedAfter(player.paused, pc),
                          !.status = Status("Synced", m.version), !.skipped = FALSE]

\* the finally block of _recv_loop for connection c, entered with status
\* label st: the button is unchecked and _disconnect runs up to its await on
\* the close of whatever self.ws holds, or to its end when it holds nothing
RecvFinally(c, st) ==
    /\ checked' = FALSE
    /\ controls' = FALSE
    /\ IF ws # 0
       THEN /\ open' = open \ {ws}
            /\ rloop' = [rloop EXCEPT ![c] = "fin"]
            /\ status' = st
            /\ ws' = ws
       ELSE /\ open' = open
            /\ rloop' = [rloop EXCEPT ![c] = "done"]
            /\ status' = Status("Disconnected", 0)
            /\ ws' = 0

\* the loop of connection c awaits its next message
GuiLoopAwaits(c) == client = "gui" /\ rloop[c] = "run" /\ c \in open

\* a state message whose version the filter rejects
GuiRecvStale(c, m) ==
    /\ GuiLoopAwaits(c)
    /\ Stale(m.version, last_version)
    /\ maxDelivered' = Max(maxDelivered, m.version)
    /\ Quiet("state", m.version, c)
    /\ UNCHANGED <<client, conn, shared, player, gui, loops, pass, passes>>

\* a state message whose version passes the filter: _apply_state, and the
\* exit of the loop when it raises
GuiRecvState(c, m, now, pos, pauseAvail, fail) ==
    /\ GuiLoopAwaits(c)
    /\ ~Stale(m.version, last_version)
    /\ LET r == GuiApply(m, now, pos, pauseAvail, fail)
       IN /\ last_version' = m.version
          /\ state' = RoomState(m.isPlaying, m.positionMs, m.updatedAt, m.version, m.updatedBy)
          /\ calls' = r.calls
          /\ player' = [player EXCEPT !.paused = r.paused]
          /\ ev' = EvClock(EvA("state", m.version, c, r.server_now, r.target, r.cur, r.args), now)
          /\ IF r.raised
             THEN RecvFinally(c, r.status)
             ELSE /\ status' = r.status
                  /\ UNCHANGED <<ws, open, rloop, checked, controls>>
    /\ maxDelivered' = Max(maxDelivered, m.version)
    /\ sent' = <<>>
    /\ UNCHANGED <<client, nextConn, server_offset_ms, has_player, connecting, tpc,
                   ui_tick_running, hb, stdin, pass, passes>>

\* a pong: the offset is recomputed from this pong alone
GuiRecvPong(c, m, t1) ==
    /\ GuiLoopAwaits(c)
    /\ server_offset_ms' = PongOffset(m.serverTimeMs, m.t, t1)
    /\ ev' = EvPong(c, m, t1)
    /\ calls' = <<>>
    /\ sent' = <<>>
    /\ UNCHANGED <<client, conn, last_version, state, player, gui, loops, recon>>

\* 1 for the message types _recv_loop puts before the user (the presence
\* list, the chat view), 0 for those that match none of its branches
GuiShows(type) == IF type \in {"presence", "chat"} THEN 1 ELSE 0

\* any other message: presence and chat only repaint lists, the rest matches
\* no branch, and a payload that is not JSON is skipped
GuiRecvInfo(c, type) ==
    /\ GuiLoopAwaits(c)
    /\ Quiet(type, GuiShows(type), c)
    /\ UNCHANGED <<client, conn, shared, player, gui, loops, recon>>

\* a payload that is JSON but no object (a list, a number, a string, null):
\* json.loads accepts it, msg.get raises AttributeError, the `except
\* Exception` of _recv_loop shows the error and the finally block runs
GuiRecvNotObject(c) ==
    /\ GuiLoopAwaits(c)
    /\ RecvFinally(c, Status("RecvError", 0))
    /\ Quiet("notobject", 0, c)
    /\ UNCHANGED <<client, nextConn, shared, player, has_player, connecting, tpc,
                   ui_tick_running, hb, stdin, recon>>

\* the transport of c is closed: `async for` ends (err: by raising), then
\* the finally block
GuiRecvExit(c, err) ==
    /\ client = "gui"
    /\ rloop[c] = "run"
    /\ c \notin open
    /\ RecvFinally(c, IF err THEN Status("RecvError", 0) ELSE status)
    /\ Quiet("closed", 0, c)
    /\ UNCHANGED <<client, nextConn, shared, player, has_player, connecting, tpc,
                   ui_tick_running, hb, stdin, recon>>

\* the close awaited by the finally block of loop c returned: the rest of
\* _disconnect
GuiRecvFin(c) ==
    /\ client = "gui"
    /\ rloop[c] = "fin"
    /\ ws' = 0
    /\ status' = Status("Disconnected", 0)
    /\ rloop' = [rloop EXCEPT ![c] = "done"]
    /\ Quiet("disconnected", 0, c)
    /\ UNCHANGED <<client, open, nextConn, shared, player, has_player, connecting, tpc,
                   checked, controls, ui_tick_running, hb, stdin, recon>>

\* one turn of the _heartbeat_loop started for connection c: it reads
\* self.ws afresh, ends when that is None or the send raises, else pings on it
GuiHeartbeat(c) ==
    /\ client = "gui"
    /\ hb[c] = "run"
    /\ sent' = SendOn(ws, "ping", "", 0, c)
    /\ hb' = [hb EXCEPT ![c] = IF ws # 0 /\ ws \in open THEN "run" ELSE "done"]
    /\ ev' = Ev("ping", Unanswered, c)
    /\ calls' = <<>>
    /\ UNCHANGED <<client, conn, shared, player, gui, rloop, stdin, recon>>

\* ----------------------------------------------------- GUI: user intents

\* the status label after a handler whose try block sent on self.ws: the
\* send raises on a closed transport and the except shows the error
AfterSend(w) == IF w # 0 /\ w \notin open THEN Status("Error", 0) ELSE status

\* play / pause button: _send_control(action)
GuiSendControl(action) ==
    /\ client = "gui"
    /\ controls
    /\ sent' = SendOn(ws, "control", action, 0, 0)
    /\ ev' = Ev("intent", 0, 0)
    /\ calls' = <<>>
    /\ UNCHANGED <<client, conn, shared, player, gui, loops, recon>>

\* EmbeddedMPV.toggle_pause: reads the flag and, when it has one, sets its
\* negation; the calls made, the flag afterwards, whether set_flag raised
TogglePause(avail, okSet) ==
    IF ~avail
    THEN [calls |-> <<QPause(FALSE, FALSE)>>, paused |-> player.paused, raised |-> FALSE]
    ELSE [calls |-> <<QPause(TRUE, player.paused), IF player.paused THEN "play" ELSE "pause">>,
          paused |-> IF okSet THEN ~player.paused ELSE player.paused,
          raised |-> ~okSet]

\* Space or the toggle button: _toggle_play_pause
GuiToggle(avail1, okSet, avail2) ==
    /\ client = "gui"
    /\ ev' = Ev("intent", 0, 0)
    /\ IF ws = 0 \/ ~has_player
       THEN /\ calls' = <<>>
            /\ sent' = <<>>
            /\ UNCHANGED <<player, status>>
       ELSE LET t == TogglePause(avail1, okSet)
            IN /\ player' = [player EXCEPT !.paused = t.paused]
               /\ IF t.raised
                  THEN /\ calls' = t.calls
                       /\ sent' = <<>>
                       /\ status' = Status("Error", 0)
                  ELSE /\ calls' = t.calls \o <<QPause(avail2, t.paused)>>
                       /\ sent' = SendOn(ws, "control",
                                         IF avail2 /\ t.paused THEN "PAUSE" ELSE "PLAY", 0, 0)
                       /\ status' = AfterSend(ws)
    /\ UNCHANGED <<client, conn, shared, has_player, connecting, tpc, checked, controls,
                   ui_tick_running, loops, recon>>

\* Left / Right or the back / forward buttons: _seek_rel(delta)
GuiSeekRel(delta, pos) ==
    /\ client = "gui"
    /\ ev' = Ev("intent", 0, 0)
    /\ IF ws = 0 \/ ~has_player
       THEN /\ calls' = <<>>
            /\ sent' = <<>>
            /\ status' = status
       ELSE /\ calls' = <<QPos(pos.avail)>>
            /\ sent' = SendOn(ws, "control", "SEEK",
                              Max(0, (IF pos.avail THEN pos.val ELSE 0) + delta), 0)
            /\ status' = AfterSend(ws)
    /\ UNCHANGED <<client, conn, shared, player, has_player, connecting, tpc, checked,
                   controls, ui_tick_running, loops, recon>>

\* slider released at value k of 0..1000: _seek_fraction_async(k / 1000)
GuiSeekFraction(k, durAvail, dur) ==
    /\ client = "gui"
    /\ controls
    /\ ev' = Ev("intent", 0, 0)
    /\ IF ws = 0 \/ ~has_player
       THEN /\ calls' = <<>>
            /\ sent' = <<>>
            /\ status' = status
       ELSE /\ calls' = <<IF durAvail THEN "duration=value" ELSE "duration=unset">>
            /\ IF durAvail /\ dur > 0
               THEN /\ sent' = SendOn(ws, "control", "SEEK", (dur * k) \div SliderMax, 0)
                    /\ status' = AfterSend(ws)
               ELSE /\ sent' = <<>>
                    /\ status' = status
    /\ UNCHANGED <<client, conn, shared, player, has_player, connecting, tpc, checked,
                   controls, ui_tick_running, loops, recon>>

\* Enter or the send button with n characters typed: _send_chat
GuiSendChat(n) ==
    /\ client = "gui"
    /\ controls
    /\ sent' = SendOn(ws, "chat", "", Min(n, ChatLimit), 0)
    /\ ev' = Ev("intent", 0, 0)
    /\ calls' = <<>>
    /\ UNCHANGED <<client, conn, shared, player, gui, loops, recon>>

\* --------------------------------------------------------- GUI: UI tick

\* a timer that starts an update on every tick, whatever is in progress
GuiTickUnguarded ==
    /\ client = "gui"
    /\ ui_tick_running' = TRUE
    /\ Quiet("tick", 0, 0)
    /\ UNCHANGED <<client, conn, shared, player, has_player, connecting, tpc, checked,
                   controls, status, loops, recon>>

\* the 250 ms timer: _on_tick starts an update unless one is running or a
\* toggle is in progress
GuiTick ==
    /\ client = "gui"
    /\ ~(connecting \/ ui_tick_running)
    /\ ui_tick_running' = TRUE
    /\ Quiet("tick", 0, 0)
    /\ UNCHANGED <<client, conn, shared, player, has_player, connecting, tpc, checked,
                   controls, status, loops, recon>>

\* _update_player_ui_guarded: the time label and the slider are repainted
\* from what the engine answers (avail: it answered both queries)
GuiTickUpdate(avail) ==
    /\ client = "gui"
    /\ ui_tick_running
    /\ ui_tick_running' = FALSE
    /\ ev' = Ev("tickupdate", 0, 0)
    /\ calls' = IF has_player
                THEN <<QPos(avail), IF avail THEN "duration=value" ELSE "duration=unset">>
                ELSE <<>>
    /\ sent' = <<>>
    /\ UNCHANGED <<client, conn, shared, player, has_player, connecting, tpc, checked,
                   controls, status, loops, recon>>

\* --------------------------------------------------- CLI: session set-up

\* a connect that starts the background tasks and leaves the join unsent
CliConnectTasksFirst(ok) ==
    /\ client = "cli"
    /\ nextConn = 1
    /\ nextConn' = 2
    /\ IF ok
       THEN /\ ws' = 1
            /\ open' = {1}
            /\ sent' = <<>>
            /\ rloop' = [rloop EXCEPT ![1] = "run"]
            /\ hb' = [hb EXCEPT ![1] = "run"]
            /\ stdin' = "run"
       ELSE /\ sent' = <<>>
            /\ rloop' = [rloop EXCEPT ![1] = "done"]
            /\ UNCHANGED <<ws, open, hb, stdin>>
    /\ ev' = Ev("connected", 0, 1)
    /\ calls' = <<>>
    /\ UNCHANGED <<client, shared, player, gui, recon>>

\* websockets.connect, the join and the two background tasks; when the
\* connect or the join raises the program ends
CliConnect(ok) ==
    /\ client = "cli"
    /\ nextConn = 1
    /\ nextConn' = 2
    /\ IF ok
       THEN /\ ws' = 1
            /\ open' = {1}
            /\ sent' = <<Out("join", "", 0, 1, 0)>>
            /\ rloop' = [rloop EXCEPT ![1] = "run"]
            /\ hb' = [hb EXCEPT ![1] = "run"]
            /\ stdin' = "run"
       ELSE /\ sent' = <<>>
            /\ rloop' = [rloop EXCEPT ![1] = "done"]
            /\ UNCHANGED <<ws, open, hb, stdin>>
    /\ ev' = Ev("connected", 0, 1)
    /\ calls' = <<>>
    /\ UNCHANGED <<client, shared, player, gui, recon>>

\* the finally block and the exit of `async with`: both tasks are cancelled
\* and the connection is closed
CliExit ==
    /\ hb' = [hb EXCEPT ![1] = "done"]
    /\ stdin' = IF stdin = "run" THEN "cancelled" ELSE stdin
    /\ rloop' = [rloop EXCEPT ![1] = "done"]
    /\ open' = open \ {1}
    /\ ws' = 0
    /\ nextConn' = nextConn

\* the inbound loop taking messages while an apply_state call is suspended
CliLoopAwaitsInPass == client = "cli" /\ rloop[1] \in {"run", "pass"} /\ 1 \in open

\* the inbound loop awaits its next message
CliLoopAwaits == client = "cli" /\ rloop[1] = "run" /\ 1 \in open

\* a state message whose version the filter rejects
CliRecvStale(m) ==
    /\ CliLoopAwaits
    /\ Stale(m.version, last_version)
    /\ maxDelivered' = Max(maxDelivered, m.version)
    /\ Quiet("state", m.version, 1)
    /\ UNCHANGED <<client, conn, shared, player, gui, loops, pass, passes>>

\* apply_state for a version that passes the filter, up to its first await
CliRecvState(m, now) ==
    /\ CliLoopAwaits
    /\ ~Stale(m.version, last_version)
    /\ last_version' = m.version
    /\ LET server_now == now + server_offset_ms
           target_ms == TargetMsCLI(m.isPlaying, m.positionMs, m.updatedAt, server_now)
       IN /\ pass' = [NoPass EXCEPT !.v = m.version, !.playing = m.isPlaying,
                                    !.positionMs = m.positionMs, !.updatedAt = m.updatedAt,
                                    !.server_now = server_now, !.target_ms = target_ms,
                                    !.target = TargetS(target_ms), !.stage = "q_pos"]
          /\ ev' = EvClock(EvT("state", m.version, 1, server_now, TargetS(target_ms)), now)
    /\ passes' = passes + 1
    /\ rloop' = [rloop EXCEPT ![1] = "pass"]
    /\ maxDelivered' = Max(maxDelivered, m.version)
    /\ calls' = <<>>
    /\ sent' = <<>>
    /\ UNCHANGED <<client, conn, server_offset_ms, state, player, gui, hb, stdin>>

\* the stage after the pause command / after the pause flag is known
AfterPause(p) == IF CliDriftCmds(p.target - p.cur) # <<>> THEN "c_seek" ELSE "done"
AfterQuery(p) == IF PauseCmds(p.playing, p.paused) # <<>> THEN "c_pause" ELSE AfterPause(p)

\* the call made cs and moves to stage st: it goes on, returns to the loop
\* ("done" after its print, "skipped" without), or raises out of the loop
\* ("failed")
CliPassTo(p, cs, st) ==
    /\ pass' = [p EXCEPT !.calls = pass.calls \o cs, !.stage = st]
    /\ calls' = cs
    /\ ev' = EvA("pass", pass.v, 1, 0, 0, 0,
                 IF Has(cs, "seek") THEN CliDriftArgs(p.target - p.cur, p.target) ELSE <<>>)
    /\ sent' = <<>>
    /\ IF st = "failed"
       THEN /\ CliExit
            /\ passes' = passes - 1
       ELSE IF st \in {"done", "skipped"}
       THEN /\ rloop' = [rloop EXCEPT ![1] = "run"]
            /\ passes' = passes - 1
            /\ UNCHANGED <<conn, hb, stdin>>
       ELSE UNCHANGED <<conn, loops, passes>>

\* the apply_state call is suspended at stage st
CliPassAt(st) == client = "cli" /\ rloop[1] = "pass" /\ pass.stage = st

\* mpv.get_property("time-pos") answers: a value, unset, or the IPC raises
CliPassPos(outcome, val) ==
    /\ CliPassAt("q_pos")
    /\ CliPassTo([pass EXCEPT !.cur = IF outcome = "value" THEN val ELSE 0],
                 IF outcome = "raise" THEN <<"time_pos=raise">> ELSE <<QPos(outcome = "value")>>,
                 CASE outcome = "value" -> "q_pause"
                   [] outcome = "unset" -> "skipped"
                   [] OTHER -> "failed")
    /\ UNCHANGED <<client, shared, player, gui, maxDelivered>>

\* mpv.get_property("pause") answers; unset is read as not paused
CliPassPause(outcome) ==
    /\ CliPassAt("q_pause")
    /\ LET p == [pass EXCEPT !.paused = (outcome = "value") /\ player.paused]
       IN CliPassTo(p,
                    IF outcome = "raise" THEN <<"pause=raise">>
                    ELSE <<QPause(outcome = "value", player.paused)>>,
                    IF outcome = "raise" THEN "failed" ELSE AfterQuery(p))
    /\ UNCHANGED <<client, shared, player, gui, maxDelivered>>

\* mpv.play() / mpv.pause()
CliPassSetPause(ok) ==
    /\ CliPassAt("c_pause")
    /\ LET pc == PauseCmds(pass.playing, pass.paused)
       IN /\ CliPassTo(pass, pc, IF ok THEN AfterPause(pass) ELSE "failed")
          /\ player' = [player EXCEPT !.paused = IF ok THEN PausedAfter(player.paused, pc)
                                                 ELSE player.paused]
    /\ UNCHANGED <<client, shared, gui, maxDelivered>>

\* mpv.seek_to(target_s)
CliPassSeek(ok) ==
    /\ CliPassAt("c_seek")
    /\ CliPassTo(pass, CliDriftCmds(pass.target - pass.cur), IF ok THEN "done" ELSE "failed")
    /\ UNCHANGED <<client, shared, player, gui, maxDelivered>>

\* a pong: the offset is recomputed from this pong alone
CliRecvPong(m, t1) ==
    /\ CliLoopAwaits
    /\ server_offset_ms' = PongOffset(m.serverTimeMs, m.t, t1)
    /\ ev' = EvPong(1, m, t1)
    /\ calls' = <<>>
    /\ sent' = <<>>
    /\ UNCHANGED <<client, conn, last_version, state, player, gui, loops, recon>>

\* 1 for the message types the inbound loop prints a line for
CliPrints(type) == IF type \in {"presence", "chat", "error"} THEN 1 ELSE 0

\* welcome, presence, chat, error (printed), an unknown type, or a payload
\* that is not JSON
CliRecvInfo(type) ==
    /\ CliLoopAwaits
    /\ Quiet(type, CliPrints(type), 1)
    /\ UNCHANGED <<client, conn, shared, player, gui, loops, recon>>

\* a payload that is JSON but no object: msg.get raises AttributeError out
\* of the `async for`, through the finally block and the `async with`
CliRecvNotObject ==
    /\ CliLoopAwaits
    /\ CliExit
    /\ Quiet("notobject", 0, 1)
    /\ UNCHANGED <<client, shared, player, gui, recon>>

\* the transport is closed: `async for` ends, then the finally block
CliRecvExit ==
    /\ client = "cli"
    /\ rloop[1] = "run"
    /\ 1 \notin open
    /\ CliExit
    /\ Quiet("closed", 0, 1)
    /\ UNCHANGED <<client, shared, player, gui, recon>>

\* a ping_loop that ends after its first ping
CliPingOnce ==
    /\ client = "cli"
    /\ hb[1] = "run"
    /\ sent' = SendOn(ws, "ping", "", 0, 1)
    /\ hb' = [hb EXCEPT ![1] = "done"]
    /\ ev' = Ev("ping", Unanswered, 1)
    /\ calls' = <<>>
    /\ UNCHANGED <<client, conn, shared, player, gui, rloop, stdin, recon>>

\* one turn of ping_loop; a send on a closed transport raises and ends it
CliPing ==
    /\ client = "cli"
    /\ hb[1] = "run"
    /\ sent' = SendOn(ws, "ping", "", 0, 1)
    /\ hb' = [hb EXCEPT ![1] = IF 1 \in open THEN "run" ELSE "done"]
    /\ ev' = Ev("ping", Unanswered, 1)
    /\ calls' = <<>>
    /\ UNCHANGED <<client, conn, shared, player, gui, rloop, stdin, recon>>

\* ------------------------------------------------------ CLI: stdin_loop

\* a command line that sends one message; a send on a closed transport
\* raises and ends the task
CliSends(type, action, arg) ==
    /\ sent' = SendOn(ws, type, action, arg, 0)
    /\ stdin' = IF 1 \in open THEN "run" ELSE "dead"

\* play | pause
CliCmdControl(action) ==
    /\ client = "cli"
    /\ stdin = "run"
    /\ CliSends("control", action, 0)
    /\ ev' = Ev("intent", 0, 0)
    /\ calls' = <<>>
    /\ UNCHANGED <<client, conn, shared, player, gui, rloop, hb, recon>>

\* int(sec * 1000) for sec given in tenths of a millisecond: the fraction is
\* cut off, toward zero
IntMs(x10) == IF x10 >= 0 THEN x10 \div 10 ELSE -((-x10) \div 10)

\* seek <seconds>, typed as x tenths of a millisecond: int(sec * 1000)
CliCmdSeek(x) ==
    /\ client = "cli"
    /\ stdin = "run"
    /\ CliSends("control", "SEEK", IntMs(x))
    /\ ev' = Ev("intent", 0, 0)
    /\ calls' = <<>>
    /\ UNCHANGED <<client, conn, shared, player, gui, rloop, hb, recon>>

\* fwd <seconds> | back <seconds>, typed as x tenths of a millisecond, with
\* the answer of the time-pos query (unset reads as 0.0)
CliCmdRel(dir, x, outcome, val) ==
    /\ client = "cli"
    /\ stdin = "run"
    /\ LET cur10 == IF outcome = "value" THEN 10 * val ELSE 0
       IN IF outcome = "raise"
          THEN /\ sent' = <<>>
               /\ stdin' = "dead"
               /\ calls' = <<"time_pos=raise">>
          ELSE /\ CliSends("control", "SEEK",
                           IF dir = "fwd" THEN IntMs(cur10 + x)
                           ELSE IntMs(Max(0, cur10 - x)))
               /\ calls' = <<QPos(outcome = "value")>>
    /\ ev' = Ev("intent", 0, 0)
    /\ UNCHANGED <<client, conn, shared, player, gui, rloop, hb, recon>>

\* chat <message> of n characters
CliCmdChat(n) ==
    /\ client = "cli"
    /\ stdin = "run"
    /\ CliSends("chat", "", n)
    /\ ev' = Ev("intent", 0, 0)
    /\ calls' = <<>>
    /\ UNCHANGED <<client, conn, shared, player, gui, rloop, hb, recon>>

\* time (prints the position), an unknown command (prints the help), a
\* seek / fwd / back whose argument is no number (float raises and the task
\* ends), quit / exit (the task returns)
CliCmdOther(kind) ==
    /\ client = "cli"
    /\ stdin = "run"
    /\ stdin' = CASE kind \in {"time", "unknown"} -> "run"
                  [] kind = "quit" -> "done"
                  [] OTHER -> "dead"
    /\ ev' = Ev(kind, 0, 0)
    /\ calls' = IF kind = "time" THEN <<QPos(TRUE)>> ELSE <<>>
    /\ sent' = <<>>
    /\ UNCHANGED <<client, conn, shared, player, gui, rloop, hb, recon>>

\* -------------------------------------------------------------- the system

Next ==
    \/ \E c \in Conns : TransportDrop(c)
    \/ PlayerEnv
    \/ GuiClickIgnored
    \/ GuiClickConnect
    \/ GuiClickConnectRejected
    \/ \E c \in SpecConns, joined \in BOOLEAN : GuiConnectOk(c, joined)
    \/ GuiConnectFail
    \/ GuiClickDisconnect
    \/ GuiDisconnectDone
    \/ \E c \in Conns, m \in StateMsgs : GuiRecvStale(c, m)
    \/ \E c \in Conns, m \in StateMsgs, now \in NowValues, pos \in PosAnswers,
          pauseAvail \in BOOLEAN, fail \in 0..3 :
            GuiRecvState(c, m, now, pos, pauseAvail, fail)
    \/ \E c \in Conns, m \in PongMsgs, t1 \in NowValues : GuiRecvPong(c, m, t1)
    \/ \E c \in Conns, type \in InfoTypes : GuiRecvInfo(c, type)
    \/ \E c \in Conns : GuiRecvNotObject(c)
    \/ \E c \in Conns, err \in BOOLEAN : GuiRecvExit(c, err)
    \/ \E c \in Conns : GuiRecvFin(c)
    \/ \E c \in Conns : GuiHeartbeat(c)
    \/ \E action \in {"PLAY", "PAUSE"} : GuiSendControl(action)
    \/ \E a1 \in BOOLEAN, okSet \in BOOLEAN, a2 \in BOOLEAN : GuiToggle(a1, okSet, a2)
    \/ \E delta \in {-SeekStepMs, SeekStepMs}, pos \in PosAnswers : GuiSeekRel(delta, pos)
    \/ \E k \in SliderValues, durAvail \in BOOLEAN, dur \in DurationValues :
            GuiSeekFraction(k, durAvail, dur)
    \/ \E n \in ChatLengths : GuiSendChat(n)
    \/ GuiTick
    \/ \E avail \in BOOLEAN : GuiTickUpdate(avail)
    \/ \E ok \in BOOLEAN : CliConnect(ok)
    \/ \E m \in StateMsgs : CliRecvStale(m)
    \/ \E m \in StateMsgs, now \in NowValues : CliRecvState(m, now)
    \/ \E outcome \in Outcomes, val \in PlayerPosValues : CliPassPos(outcome, val)
    \/ \E outcome \in Outcomes : CliPassPause(outcome)
    \/ \E ok \in BOOLEAN : CliPassSetPause(ok)
    \/ \E ok \in BOOLEAN : CliPassSeek(ok)
    \/ \E m \in PongMsgs, t1 \in NowValues : CliRecvPong(m, t1)
    \/ \E type \in InfoTypes : CliRecvInfo(type)
    \/ CliRecvNotObject
    \/ CliRecvExit
    \/ CliPing
    \/ \E action \in {"PLAY", "PAUSE"} : CliCmdControl(action)
    \/ \E x \in TypedTenths : CliCmdSeek(x)
    \/ \E dir \in {"fwd", "back"}, x \in TypedTenths, outcome \in Outcomes,
          val \in PlayerPosValues : CliCmdRel(dir, x, outcome, val)
    \/ \E n \in ChatLengths : CliCmdChat(n)
    \/ \E kind \in {"time", "unknown", "quit", "badnumber"} : CliCmdOther(kind)

Spec == Init /\ [][Next]_vars

\* ------------------------------------------------ the Qt client reconnecting

\* The Qt client over several sessions: connect, disconnect, transport loss
\* and the loops of every session, with the user's other intents, the UI
\* tick and the messages that carry nothing left out.
InitReconnect == Init /\ client = "gui"

NextReconnect ==
    \/ \E c \in Conns : TransportDrop(c)
    \/ GuiClickConnect
    \/ \E c \in Conns, joined \in BOOLEAN : GuiConnectOk(c, joined)
    \/ GuiConnectFail
    \/ GuiClickDisconnect
    \/ GuiDisconnectDone
    \/ \E c \in Conns, m \in StateMsgs : GuiRecvStale(c, m)
    \/ \E c \in Conns, m \in StateMsgs, now \in NowValues, pos \in PosAnswers,
          pauseAvail \in BOOLEAN, fail \in 0..3 :
            GuiRecvState(c, m, now, pos, pauseAvail, fail)
    \/ \E c \in Conns, m \in PongMsgs, t1 \in NowValues : GuiRecvPong(c, m, t1)
    \/ \E c \in Conns : GuiRecvNotObject(c)
    \/ \E c \in Conns, err \in BOOLEAN : GuiRecvExit(c, err)
    \/ \E c \in Conns : GuiRecvFin(c)
    \/ \E c \in Conns : GuiHeartbeat(c)

SpecReconnect == InitReconnect /\ [][NextReconnect]_vars


\* --------------------------------------- the Qt client's intents and sessions

\* The Qt client over several sessions with the user's intents: buttons,
\* shortcuts, the slider and the chat line, in whatever state connects,
\* disconnects and closing sessions leave the window. Inbound messages and
\* heartbeats are left out.
NextIntents ==
    \/ \E c \in Conns : TransportDrop(c)
    \/ PlayerEnv
    \/ GuiClickConnect
    \/ \E c \in Conns, joined \in BOOLEAN : GuiConnectOk(c, joined)
    \/ GuiConnectFail
    \/ GuiClickDisconnect
    \/ GuiDisconnectDone
    \/ \E c \in Conns : GuiRecvNotObject(c)
    \/ \E c \in Conns, err \in BOOLEAN : GuiRecvExit(c, err)
    \/ \E c \in Conns : GuiRecvFin(c)
    \/ \E action \in {"PLAY", "PAUSE"} : GuiSendControl(action)
    \/ \E a1 \in BOOLEAN, okSet \in BOOLEAN, a2 \in BOOLEAN : GuiToggle(a1, okSet, a2)
    \/ \E delta \in {-SeekStepMs, SeekStepMs}, pos \in PosAnswers : GuiSeekRel(delta, pos)
    \/ \E k \in SliderValues, durAvail \in BOOLEAN, dur \in DurationValues :
            GuiSeekFraction(k, durAvail, dur)
    \/ \E n \in ChatLengths : GuiSendChat(n)

SpecIntents == InitReconnect /\ [][NextIntents]_vars

\* ------------------------------------------- drift correction over its bands

\* Snapshots whose target is 3000 ms at clock 3000 and offset 0, paused and
\* playing, and player positions that put the drift in every band of both
\* policies and on either side of every threshold: drift 3000, 1500, 1499,
\* 1000, 601, 600, 500, 250, 249, 0, -1000, -3000.
DriftShapes == {[isPlaying |-> FALSE, positionMs |-> 3000, updatedAt |-> 0],
                [isPlaying |-> TRUE, positionMs |-> 1000, updatedAt |-> 1000]}
DriftMsgs == {[version |-> v, isPlaying |-> sh.isPlaying, positionMs |-> sh.positionMs,
               updatedAt |-> sh.updatedAt, updatedBy |-> "u1"] : v \in Versions, sh \in DriftShapes}
DriftPosValues == {0, 1500, 1501, 2000, 2399, 2400, 2500, 2750, 2751, 3000, 4000, 6000}
DriftPosAnswers == [avail : {TRUE}, val : DriftPosValues]

\* Either client in one session with an engine that answers every query
\* and carries out every command: state messages and their passes only.
NextDrift ==
    \/ PlayerEnv
    \/ GuiClickConnect
    \/ \E c \in SpecConns : GuiConnectOk(c, TRUE)
    \/ \E c \in SpecConns, m \in DriftMsgs : GuiRecvStale(c, m)
    \/ \E c \in SpecConns, m \in DriftMsgs, now \in NowValues, pos \in DriftPosAnswers :
            GuiRecvState(c, m, now, pos, TRUE, 0)
    \/ CliConnect(TRUE)
    \/ \E m \in DriftMsgs : CliRecvStale(m)
    \/ \E m \in DriftMsgs, now \in NowValues : CliRecvState(m, now)
    \/ \E val \in DriftPosValues : CliPassPos("value", val)
    \/ CliPassPause("value")
    \/ CliPassSetPause(TRUE)
    \/ CliPassSeek(TRUE)

SpecDrift == Init /\ [][NextDrift]_vars

\* ------------------------------------------- the command-line client alone

\* A run of watchparty.py in which the event loop keeps running what is
\* ready: a turn of ping_loop when its sleep is over, the steps of a
\* reconciliation pass, and the exit of the inbound loop once the transport
\* is closed. What the server, the network and the user do is up to them.
InitCli == Init /\ client = "cli"

CliPassStep ==
    \/ \E outcome \in Outcomes, val \in PlayerPosValues : CliPassPos(outcome, val)
    \/ \E outcome \in Outcomes : CliPassPause(outcome)
    \/ \E ok \in BOOLEAN : CliPassSetPause(ok)
    \/ \E ok \in BOOLEAN : CliPassSeek(ok)

NextCli ==
    \/ TransportDrop(1)
    \/ PlayerEnv
    \/ \E ok \in BOOLEAN : CliConnect(ok)
    \/ \E m \in StateMsgs : CliRecvStale(m)
    \/ \E m \in StateMsgs, now \in NowValues : CliRecvState(m, now)
    \/ CliPassStep
    \/ \E m \in PongMsgs, t1 \in NowValues : CliRecvPong(m, t1)
    \/ \E type \in InfoTypes : CliRecvInfo(type)
    \/ CliRecvNotObject
    \/ CliRecvExit
    \/ CliPing
    \/ \E action \in {"PLAY", "PAUSE"} : CliCmdControl(action)
    \/ \E x \in TypedTenths : CliCmdSeek(x)
    \/ \E dir \in {"fwd", "back"}, x \in TypedTenths, outcome \in Outcomes,
          val \in PlayerPosValues : CliCmdRel(dir, x, outcome, val)
    \/ \E n \in ChatLengths : CliCmdChat(n)
    \/ \E kind \in {"time", "unknown", "quit", "badnumber"} : CliCmdOther(kind)

SpecCli ==
    /\ InitCli
    /\ [][NextCli]_vars
    /\ WF_vars(CliPing)
    /\ WF_vars(CliPassStep)
    /\ WF_vars(CliRecvExit)

\* ------------------------------------------------------- the seek intents

\* Seconds typed after seek / fwd / back, in tenths of a millisecond: whole
\* and fractional milliseconds of either sign, and the positions, durations
\* and slider values the seeks start from.
SeekTypedTenths == {-200000, -15, -5, 0, 4, 5, 15, 16, 100000}
SeekPosValues == {0, 7, 5000, 12345}
SeekDurationValues == {7, 4000, 4001}
SeekSliderValues == {0, 1, 333, 500, 667, 1000}

NextSeek ==
    \/ PlayerEnv
    \/ GuiClickConnect
    \/ \E c \in SpecConns : GuiConnectOk(c, TRUE)
    \/ \E delta \in {-SeekStepMs, SeekStepMs}, pos \in [avail : BOOLEAN, val : SeekPosValues] :
            GuiSeekRel(delta, pos)
    \/ \E k \in SeekSliderValues, dur \in SeekDurationValues : GuiSeekFraction(k, TRUE, dur)
    \/ CliConnect(TRUE)
    \/ \E x \in SeekTypedTenths : CliCmdSeek(x)
    \/ \E dir \in {"fwd", "back"}, x \in SeekTypedTenths, outcome \in {"value", "unset"},
          val \in SeekPosValues : CliCmdRel(dir, x, outcome, val)

SpecSeek == Init /\ [][NextSeek]_vars

\* ------------------------------------------- state messages short of fields

\* The state object of a state message as it arrives: has names the keys
\* that are there; every key the object has carries a value no default
\* equals. An object without keys stands for a message without "state" too.
RawFields == {"version", "isPlaying", "positionMs", "updatedAt", "updatedBy"}
RawStates == {[has |-> h, version |-> v, isPlaying |-> TRUE, positionMs |-> 1000,
               updatedAt |-> 1000, updatedBy |-> "u1"] : h \in SUBSET RawFields, v \in 1..MaxVersion}

\* the value read where the key is missing, too
GetStrict(raw, f, default) == raw[f]

\* state.get(f, default)
Get(raw, f, default) == IF f \in raw.has THEN raw[f] ELSE default

\* the fields as apply_state / _apply_state read them
ParseState(raw) ==
    [version |-> Get(raw, "version", 0), isPlaying |-> Get(raw, "isPlaying", FALSE),
     positionMs |-> Get(raw, "positionMs", 0), updatedAt |-> Get(raw, "updatedAt", 0),
     updatedBy |-> Get(raw, "updatedBy", "")]

\* the GUI handles the state message raw: the filter, then the pass
GuiRecvRaw(c, raw, now, pos) ==
    IF Stale(ParseState(raw).version, last_version)
    THEN GuiRecvStale(c, ParseState(raw))
    ELSE GuiRecvState(c, ParseState(raw), now, pos, TRUE, 0)

\* the CLI handles the state message raw
CliRecvRaw(raw, now) ==
    IF Stale(ParseState(raw).version, last_version)
    THEN CliRecvStale(ParseState(raw))
    ELSE CliRecvState(ParseState(raw), now)

NextDefaults ==
    \/ PlayerEnv
    \/ GuiClickConnect
    \/ \E c \in SpecConns : GuiConnectOk(c, TRUE)
    \/ \E c \in SpecConns, raw \in RawStates, now \in NowValues, val \in PlayerPosValues :
            GuiRecvRaw(c, raw, now, [avail |-> TRUE, val |-> val])
    \/ CliConnect(TRUE)
    \/ \E raw \in RawStates, now \in NowValues : CliRecvRaw(raw, now)
    \/ \E val \in PlayerPosValues : CliPassPos("value", val)
    \/ CliPassPause("value")
    \/ CliPassSetPause(TRUE)
    \/ CliPassSeek(TRUE)

SpecDefaults == Init /\ [][NextDefaults]_vars

\* ------------------------------------------------ the clock estimate alone

\* Pongs whose round trip is even, odd and not positive, ahead of and behind
\* the local clock, and state messages handled at local time 2000 by a
\* client whose player is not there to answer.
ClockPongs == [t : {1000}, serverTimeMs : {1000, 1050}]
ClockReceiveValues == {1000, 1001, 1100}
ClockNowValues == {2000}

NextClock ==
    \/ GuiClickConnect
    \/ \E c \in SpecConns : GuiConnectOk(c, TRUE)
    \/ \E c \in SpecConns, m \in ClockPongs, t1 \in ClockReceiveValues : GuiRecvPong(c, m, t1)
    \/ \E c \in SpecConns, m \in StateMsgs : GuiRecvStale(c, m)
    \/ \E c \in SpecConns, m \in StateMsgs, now \in ClockNowValues :
            GuiRecvState(c, m, now, [avail |-> FALSE, val |-> 0], TRUE, 0)
    \/ CliConnect(TRUE)
    \/ \E m \in ClockPongs, t1 \in ClockReceiveValues : CliRecvPong(m, t1)
    \/ \E m \in StateMsgs : CliRecvStale(m)
    \/ \E m \in StateMsgs, now \in ClockNowValues : CliRecvState(m, now)
    \/ CliPassPos("unset", 0)

SpecClock == Init /\ [][NextClock]_vars

\* ------------------------------------------------------------------ claims

\* a query of cs was answered unset
HasUnset(cs) == Has(cs, QPos(FALSE)) \/ Has(cs, QPause(FALSE, FALSE))

\* C1: in both clients a state message whose version is less than or equal to
\* the last applied version is a complete no-op: the last applied version,
\* the held snapshot, the clock offset, the player and the status are
\* unchanged, no pass is started and no player call or message is issued;
\* this includes the re-delivery of the version just applied.
C1_StaleIsNoOp ==
    [][(ev'.kind = "state" /\ ev'.v <= last_version)
         => /\ UNCHANGED <<last_version, state, server_offset_ms, player, status, pass, passes>>
            /\ UNCHANGED <<ws, open, rloop, hb>>
            /\ calls' = <<>>
            /\ sent' = <<>>]_vars

\* the version just applied was delivered again and nothing was done
C1_Witness ==
    /\ ev.kind = "state"
    /\ ev.v = last_version
    /\ last_version > 0
    /\ calls = <<>>
    /\ rloop[ev.conn] = "run"

\* C2: for state messages delivered in any order, duplicates allowed, during
\* one session, the last applied version equals the maximum version among
\* the messages handled so far, hence also once all have been processed.
C2_LastIsMaxDelivered == last_version = maxDelivered

\* a lower version was handled after the highest one
C2_Witness ==
    /\ ev.kind = "state"
    /\ ev.v < maxDelivered
    /\ ev.v > 0
    /\ maxDelivered = MaxVersion
    /\ last_version = MaxVersion

\* C3: within one session the versions of the accepted states are strictly
\* increasing and the last applied version never decreases (it changes only
\* when a state is accepted, and a new session starts it at 0), whatever is
\* interleaved; no two reconciliation passes overlap.
C3_AcceptedIncrease ==
    [][/\ (ev'.kind = "state" /\ (last_version' # last_version \/ calls' # <<>> \/ passes' > passes))
            => (ev'.v > last_version /\ last_version' = ev'.v)
       /\ (last_version' # last_version /\ ev'.kind # "state")
            => (ev'.kind = "connected" /\ last_version' = 0)
       /\ passes' <= 1]_vars

\* the highest version was accepted, after a pong, and its pass is in flight
C3_Witness ==
    /\ ev.kind = "state"
    /\ ev.v = MaxVersion
    /\ last_version = MaxVersion
    /\ server_offset_ms # 0
    /\ passes = 1

\* C4: a player query or command that fails or answers unset during a
\* reconciliation pass never stops the inbound loop and never moves the
\* session to Disconnected.
C4_PlayerFailureNotFatal ==
    [][ev'.kind \in {"state", "pass"}
         => /\ \A c \in Conns : rloop[c] \in {"run", "pass"} => rloop'[c] \in {"run", "pass"}
            /\ ws' = ws
            /\ open' = open]_vars

\* C5: a heartbeat loop sends only on the connection of its own session: a
\* loop of an ended session never pings on the connection of a later one.
C5_OldLoopsSilent ==
    \A i \in DOMAIN sent : sent[i].type = "ping" => sent[i].by = sent[i].conn

\* C6: no local user intent issues a command to the local player.
C6_IntentsOnlySend == ev.kind = "intent" => CommandsOf(calls) = <<>>

\* C7: in both clients a pass in which the position or the pause flag was
\* answered unset issues no player command at all.
C7_UnsetSkips ==
    /\ (ev.kind = "state" /\ HasUnset(calls)) => CommandsOf(calls) = <<>>
    /\ HasUnset(pass.calls) => CommandsOf(pass.calls) = <<>>

\* the step just taken skipped the pass of an accepted state
SkippedPass ==
    \/ client = "gui" /\ ev.kind = "state" /\ HasUnset(calls)
    \/ client = "cli" /\ ev.kind = "pass" /\ pass.stage = "skipped"

\* C8: after a skipped pass the correction is retried: the next tick update
\* at which the player answers commands the player, and the next inbound
\* state message that carries the held version or a newer one starts a pass.
C8_SkippedIsRetried ==
    [][/\ (SkippedPass /\ ev'.kind = "tickupdate" /\ Has(calls', QPos(TRUE)))
            => CommandsOf(calls') # <<>>
       /\ (SkippedPass /\ ev'.kind = "state" /\ ev'.v >= last_version)
            => (calls' # <<>> \/ passes' > passes)]_vars

\* the target of the specification, in ms
C9_TargetMs(playing, position_ms, updated_at, server_now) ==
    IF playing THEN position_ms + Max(0, server_now - updated_at) ELSE position_ms

\* C9: in both clients the target of a pass is max(0, targetMs) with targetMs
\* = positionMs + max(0, serverNow - updatedAt) when playing and positionMs
\* when not; the target of a playing snapshot is never below its positionMs.
C9_TargetFormula ==
    /\ (client = "cli" /\ pass.stage # "none")
          => pass.target = Max(0, C9_TargetMs(pass.playing, pass.positionMs,
                                              pass.updatedAt, pass.server_now))
    /\ (client = "gui" /\ ev.kind = "state" /\ calls # <<>>)
          => ev.target = Max(0, C9_TargetMs(state.isPlaying, state.positionMs,
                                            state.updatedAt, ev.server_now))

\* the play/pause commands among the calls cs of a pass on a snapshot with
\* flag playing: play exactly when playing and the flag was read as paused,
\* pause exactly when not playing and the flag was read as not paused, and
\* ahead of every other command
PauseDecision(cs, playing) ==
    LET cmds == CommandsOf(cs)
        readPaused == Has(cs, QPause(TRUE, TRUE))
    IN /\ Has(cmds, "play") <=> (playing /\ readPaused)
       /\ Has(cmds, "pause") <=> ((~playing) /\ (~readPaused))
       /\ \A i \in DOMAIN cmds : cmds[i] \in {"play", "pause"} => i = 1

\* C10: for an accepted state with the player available, play is commanded
\* exactly when the snapshot is playing and the player paused, pause exactly
\* when the snapshot is paused and the player playing, whatever the drift,
\* before any seek or speed command of the pass, and neither when the
\* flags agree.
C10_PauseFirst ==
    /\ (client = "gui" /\ ev.kind = "state" /\ Has(calls, QPos(TRUE)) /\ ~HasUnset(calls))
          => PauseDecision(calls, state.isPlaying)
    /\ (client = "cli" /\ pass.stage \in {"c_seek", "done"} /\ ~HasUnset(pass.calls))
          => PauseDecision(pass.calls, pass.playing)

\* a pass that resumed the player and then corrected a large drift
C10_Witness ==
    /\ ev.kind = "state"
    /\ CommandsOf(calls) = <<"play", "set_speed", "seek">>

\* how often x occurs in the sequence cs
Count(cs, x) == Cardinality({i \in DOMAIN cs : cs[i] = x})

\* C11: in the CLI client a completed pass with |drift| <= 0.6 s issued no
\* seek, one with |drift| > 0.6 s issued exactly one seek, to the computed
\* target, and no pass issues a speed command.
C11_HardSeek ==
    client = "cli" =>
      /\ ~Has(pass.calls, "set_speed")
      /\ pass.stage = "done"
           => Count(pass.calls, "seek") = IF Abs(pass.target - pass.cur) > 600 THEN 1 ELSE 0
      /\ (ev.kind = "pass" /\ Has(calls, "seek"))
           => ev.args = <<Arg("seek", pass.target)>>

\* a pass with drift +3.0 s ended with its one seek to the target
C11_Witness ==
    /\ client = "cli"
    /\ pass.stage = "done"
    /\ pass.target - pass.cur = 3000
    /\ Count(pass.calls, "seek") = 1
    /\ ev.args = <<Arg("seek", 3000)>>

\* the last step was a GUI reconciliation pass that reached the corrections
GuiPass == client = "gui" /\ ev.kind = "state" /\ calls # <<>>

\* the speeds, in 1/10000, among the valued commands in args
Speeds(args) == {args[i].arg : i \in {j \in DOMAIN args : args[j].cmd = "set_speed"}}

\* C12: a GUI reconciliation pass issues setSpeed(1.0) and no seek when
\* |drift| < 0.25 s, setSpeed(1.0 + clamp(drift*0.10, -0.10, 0.10)) and no
\* seek when 0.25 s <= |drift| < 1.5 s, setSpeed(1.0) followed by exactly one
\* absolute seek to the target when |drift| >= 1.5 s; every speed commanded
\* lies in [0.90, 1.10].
C12_SmoothSpeed ==
    GuiPass =>
      LET drift == ev.target - ev.cur
          d == IF drift < 0 THEN -drift ELSE drift
          tenth == IF drift > 1000 THEN 1000 ELSE IF drift < -1000 THEN -1000 ELSE drift
      IN  /\ d < 250 => ev.args = <<Arg("set_speed", 10000)>>
          /\ (250 <= d /\ d < 1500) => ev.args = <<Arg("set_speed", 10000 + tenth)>>
          /\ d >= 1500 => ev.args = <<Arg("set_speed", 10000), Arg("seek", ev.target)>>
          /\ Count(calls, "seek") = IF d >= 1500 THEN 1 ELSE 0
          /\ Count(calls, "set_speed") = 1
          /\ \A sp \in Speeds(ev.args) : 9000 <= sp /\ sp <= 11000

\* a pass with drift +1.0 s set the speed to 1.10 and did not seek
C12_Witness ==
    /\ GuiPass
    /\ ev.target - ev.cur = 1000
    /\ ev.args = <<Arg("set_speed", 11000)>>
    /\ ~Has(calls, "seek")

\* twice the offset the pong just handled calls for:
\* 2 * (serverTimeMs - (t + rtt/2)) with rtt = max(1, now - t)
PongTwice ==
    LET t == ev.pong[1]
        rtt == IF ev.clock - t > 1 THEN ev.clock - t ELSE 1
    IN  2 * ev.pong[2] - 2 * t - rtt

\* C13: after every pong the clock offset is serverTimeMs - (t + rtt/2) with
\* rtt = max(1, now - t), cut to whole milliseconds toward zero, whatever the
\* previous estimate was; the server time estimated for an accepted state
\* message is the local clock plus that offset.
C13_PongOffset ==
    /\ ev.kind = "pong" =>
          /\ PongTwice % 2 = 0 => 2 * server_offset_ms = PongTwice
          /\ (PongTwice % 2 = 1 /\ PongTwice > 0) => 2 * server_offset_ms = PongTwice - 1
          /\ (PongTwice % 2 = 1 /\ PongTwice < 0) => 2 * server_offset_ms = PongTwice + 1
    /\ (ev.kind = "state" /\ ev.clock > 0) => ev.server_now = ev.clock + server_offset_ms

\* a pong sent at 1000, answered with 1050 and received at 1001 (rtt 1) left
\* the offset 49
C13_Witness ==
    /\ ev.kind = "pong"
    /\ ev.pong = <<1000, 1050>>
    /\ ev.clock = 1001
    /\ server_offset_ms = 49

\* C13 as stated: after every pong the offset is exactly
\* serverTimeMs - (t + rtt/2).
C13_OffsetExact == ev.kind = "pong" => 2 * server_offset_ms = PongTwice

\* C14: a turn of the probe loop on an open connection sends one ping on it
\* and leaves the loop running, whether or not the ping before it was
\* answered; it changes neither the offset nor the applied version, the
\* snapshot, the connection or the other loops; and the offset changes in no
\* step but a pong's, so that a ping left without answer changes nothing.
C14_PingEachInterval ==
    [][/\ ev'.kind = "ping" =>
            /\ hb[ev'.conn] = "run"
            /\ sent' = IF ws # 0 /\ ws \in open
                        THEN <<Out("ping", "", 0, ws, ev'.conn)>> ELSE <<>>
            /\ (ws # 0 /\ ws \in open) => hb'[ev'.conn] = "run"
            /\ UNCHANGED <<server_offset_ms, last_version, state, player, ws, open,
                           rloop, stdin, pass, passes, checked, controls, status>>
       /\ server_offset_ms' # server_offset_ms => ev'.kind = "pong"]_vars

\* a ping went out on the open connection right after another ping, with the
\* offset of an earlier pong still in place, and the loop goes on
C14_Witness ==
    /\ ev.kind = "ping"
    /\ ev.v = 1
    /\ sent # <<>>
    /\ hb[ev.conn] = "run"
    /\ server_offset_ms # 0

\* C15: a malformed inbound message - a payload that is not JSON, or JSON
\* that is not a protocol message object - changes neither the applied
\* version nor the snapshot nor the offset, issues no player command, and
\* leaves the inbound loop running on its open connection.
C15_MalformedDropped ==
    [][ev'.kind \in {"malformed", "notobject"}
         => /\ UNCHANGED <<last_version, state, server_offset_ms>>
            /\ calls' = <<>>
            /\ rloop'[ev'.conn] = "run"
            /\ ev'.conn \in open'
            /\ ws' = ws]_vars

\* the value a handler is to use for field f of the state message raw
Expected(raw, f) ==
    IF f \in raw.has THEN raw[f]
    ELSE [isPlaying |-> FALSE, positionMs |-> 0, updatedAt |-> 0, updatedBy |-> ""][f]

\* raw carries a version above the applied one
Fresh(raw) == "version" \in raw.has /\ raw.version > last_version

\* C16: a state message with any subset of its fields missing is handled
\* with isPlaying=false, positionMs=0, updatedAt=0, updatedBy="" in place of
\* the missing ones; the connection stays and no step ends the inbound loop.
C16_MissingFieldsDefault ==
    [][/\ \A raw \in RawStates, now \in NowValues :
            /\ \A c \in SpecConns, val \in PlayerPosValues :
                  (GuiRecvRaw(c, raw, now, [avail |-> TRUE, val |-> val]) /\ Fresh(raw))
                    => state' = [version |-> raw.version,
                                 isPlaying |-> Expected(raw, "isPlaying"),
                                 positionMs |-> Expected(raw, "positionMs"),
                                 updatedAt |-> Expected(raw, "updatedAt"),
                                 updatedBy |-> Expected(raw, "updatedBy")]
            /\ (CliRecvRaw(raw, now) /\ Fresh(raw))
                  => /\ pass'.v = raw.version
                     /\ pass'.playing = Expected(raw, "isPlaying")
                     /\ pass'.positionMs = Expected(raw, "positionMs")
                     /\ pass'.updatedAt = Expected(raw, "updatedAt")
       /\ ev'.kind \in {"state", "pass"} => (open' = open /\ ws' = ws)
       /\ \A c \in Conns : rloop[c] \in {"run", "pass"} => rloop'[c] \in {"run", "pass"}]_vars

\* the GUI holds version 2 of a message that had nothing but its version and
\* isPlaying, and its loop goes on
C16_Witness ==
    /\ client = "gui"
    /\ ev.kind = "state"
    /\ state = RoomState(TRUE, 0, 0, 2, "")
    /\ status = Status("Synced", 2)
    /\ rloop[1] = "run"
    /\ 1 \in open

\* C17: an inbound server error event is put before the user (printed, or
\* shown as status) and ends nothing: the connection, the loops, the applied
\* version, the snapshot and the offset are as before.
C17_ErrorSurfaced ==
    [][ev'.kind = "error"
         => /\ ev'.v = 1
            /\ UNCHANGED <<ws, open, rloop, hb, last_version, state, server_offset_ms>>]_vars

\* no connect or disconnect is under way and no inbound loop is running or
\* closing its session
GuiAtRest ==
    /\ client = "gui"
    /\ ~connecting
    /\ \A c \in Conns : rloop[c] \notin {"run", "fin"}

\* C18: once a connect failure or a transport close or error has been dealt
\* with, the GUI is in Disconnected - it holds no connection, its controls are
\* disabled and the connect button is unchecked - and a connection attempt
\* starts with a click only.
C18_EndsDisconnected ==
    /\ [](GuiAtRest => (ws = 0 /\ ~controls /\ ~checked))
    /\ [][(tpc' = "connecting" /\ tpc # "connecting") => ev'.kind = "click"]_vars

\* the step wrote the join message
JoinSent == \E i \in DOMAIN sent : sent[i].type = "join"

\* C19: the GUI takes a session as joined - controls enabled, status
\* "Connected", inbound and heartbeat loop started - only in a step that
\* opened the transport and sent the join; a connect step in which either
\* fails leaves no connection held and the controls disabled.
C19_JoinedAfterJoin ==
    [][client = "gui" =>
         /\ ((controls' /\ ~controls) \/ (status'.text = "Connected" /\ status.text # "Connected"))
               => JoinSent'
         /\ ev'.kind \in {"connected", "connectfail"} =>
               IF JoinSent'
               THEN /\ controls' /\ status'.text = "Connected"
                    /\ rloop'[ws'] = "run" /\ hb'[ws'] = "run"
               ELSE ws' = 0 /\ ~controls']_vars

\* C20: in Disconnected the GUI holds no snapshot of the session that ended
\* (the snapshot is the empty one it started with), and the snapshot is
\* replaced by a state of strictly higher version only.
C20_SnapshotDiscarded ==
    /\ []((client = "gui" /\ ws = 0 /\ status.text = "Disconnected")
            => state = RoomState(FALSE, 0, 0, 0, ""))
    /\ [][state' # state => state'.version > state.version]_vars

\* ten times the positionMs of the SEEK the step sent
SeekSent10 == 10 * sent'[1].arg

\* C21: every relative-seek intent emits a SEEK for max(0, local + delta),
\* local being the position the player answered or 0 when it answered none:
\* the positionMs is never negative and within a millisecond of that value.
C21_RelativeSeekClamped ==
    [][/\ \A dir \in {"fwd", "back"}, x \in SeekTypedTenths, outcome \in {"value", "unset"},
             val \in SeekPosValues :
            (CliCmdRel(dir, x, outcome, val) /\ sent' # <<>>) =>
               LET local == IF outcome = "value" THEN 10 * val ELSE 0
                   delta == IF dir = "fwd" THEN x ELSE -x
                   want == IF local + delta > 0 THEN local + delta ELSE 0
               IN  /\ sent'[1].arg >= 0
                   /\ SeekSent10 - want < 10 /\ want - SeekSent10 < 10
       /\ \A delta \in {-SeekStepMs, SeekStepMs}, pos \in [avail : BOOLEAN, val : SeekPosValues] :
            (GuiSeekRel(delta, pos) /\ sent' # <<>>) =>
               LET local == IF pos.avail THEN pos.val ELSE 0
                   want == IF local + delta > 0 THEN local + delta ELSE 0
               IN  sent'[1].arg = want]_vars

\* C22: every chat message either client sends carries a text of at most
\* 500 characters.
C22_ChatAtMost500 ==
    \A i \in DOMAIN sent : sent[i].type = "chat" => sent[i].arg <= 500

\* C23: the applied version and the snapshot change in no step but the
\* handling of a state message, the offset in no step but the handling of a
\* pong; pings, user intents, UI ticks and the other inbound messages change
\* none of the three and issue no player command.
C23_SingleWriter ==
    [][/\ (last_version' # last_version \/ state' # state) => ev'.kind = "state"
       /\ server_offset_ms' # server_offset_ms => ev'.kind = "pong"
       /\ ev'.kind \in {"ping", "intent", "tick", "tickupdate", "welcome", "presence",
                        "chat", "error", "unknown"}
            => /\ UNCHANGED <<last_version, state, server_offset_ms>>
               /\ CommandsOf(calls') = <<>>]_vars

\* C24: an absolute-seek intent for s seconds emits a SEEK whose positionMs
\* is s*1000 rounded to the nearest integer: no more than half a millisecond
\* away from it, in the CLI seek command and for the GUI slider.
C24_SeekRounded ==
    [][/\ \A x \in SeekTypedTenths :
            (CliCmdSeek(x) /\ sent' # <<>>)
               => (SeekSent10 - x <= 5 /\ x - SeekSent10 <= 5)
       /\ \A k \in SeekSliderValues, dur \in SeekDurationValues :
            (GuiSeekFraction(k, TRUE, dur) /\ sent' # <<>>)
               => /\ SliderMax * sent'[1].arg - dur * k <= SliderMax \div 2
                  /\ dur * k - SliderMax * sent'[1].arg <= SliderMax \div 2]_vars

\* C25: the GUI has at most one transport connection open, and whenever no
\* connect or disconnect is under way (and no ended session is still being
\* closed) the connect button is checked exactly when a connection is held.
C25_ButtonMatchesConnection ==
    client = "gui" =>
      /\ Cardinality(open) <= 1
      /\ (~connecting /\ \A c \in Conns : rloop[c] # "fin") => (checked <=> ws # 0)

\* C26: the teardown of an ended session leaves a later connection alone: a
\* session whose inbound loop is running on an open connection has that
\* connection in self.ws and its controls enabled.
C26_TeardownSparesLater ==
    client = "gui" =>
      \A c \in Conns : (rloop[c] = "run" /\ c \in open) => (ws = c /\ controls)

\* C27: on every connection the join is sent exactly once and before any
\* other message. A connection opens once, in the step that sends its join
\* and nothing else; a join is sent in that step only; and a ping, control
\* or chat message goes out on a connection that was open before the step.
C27_JoinFirst ==
    /\ [](\A c \in open : c < nextConn)
    /\ [][\A c \in Conns :
            /\ (c \notin open /\ c \in open')
                 => (sent' = <<Out("join", "", 0, c, 0)>> /\ c = nextConn /\ nextConn' > c)
            /\ \A i \in DOMAIN sent' :
                 sent'[i].conn = c =>
                    IF sent'[i].type = "join"
                    THEN c \notin open /\ c \in open' /\ Len(sent') = 1
                    ELSE c \in open]_vars

\* a control message of a user intent went out on the joined connection
C27_Witness ==
    /\ ev.kind = "intent"
    /\ sent # <<>>
    /\ sent[1].type = "control"
    /\ sent[1].conn \in open
    /\ sent[1].conn < nextConn

\* C28: once the user has entered quit or exit the CLI session terminates:
\* the inbound loop stops, the ping task is over and the transport is
\* released.
C28_QuitTerminates ==
    (client = "cli" /\ stdin = "done") ~> (rloop[1] = "done" /\ hb[1] = "done" /\ 1 \notin open)

\* C29: in the GUI the held snapshot and the applied version agree: with
\* last_version = v > 0 the snapshot has version v, with last_version = 0 no
\* snapshot of a positive version is held.
C29_SnapshotMatchesVersion ==
    client = "gui" =>
      /\ last_version > 0 => state.version = last_version
      /\ last_version = 0 => state.version = 0

\* C30: a session starts with the clock offset 0 - no offset estimated in an
\* earlier session is carried into it - and the offset stays 0 until a pong
\* is handled.
C30_OffsetStartsAtZero ==
    [][/\ ev'.kind = "connected" => server_offset_ms' = 0
       /\ (server_offset_ms = 0 /\ server_offset_ms' # 0) => ev'.kind = "pong"]_vars

\* C31: in the CLI a command line that cannot be handled - an unknown
\* command, a seek / fwd / back whose argument is no number, a player query
\* that fails - leaves stdin_loop reading commands.
C31_BadCommandTolerated ==
    [][(/\ client = "cli"
        /\ stdin = "run"
        /\ \/ ev'.kind \in {"unknown", "badnumber"}
           \/ (ev'.kind = "intent" /\ Has(calls', "time_pos=raise")))
         => stdin' = "run"]_vars

\* C32: in the Qt client a user intent (play, pause, toggle, relative or
\* fraction seek, chat) taken while no connection is held writes no message,
\* shows no error, and leaves the shared state and the local player as they
\* were.
C32_IdleIntentInert ==
    [][(client = "gui" /\ ws = 0 /\ ev'.kind = "intent")
         => /\ sent' = <<>>
            /\ calls' = <<>>
            /\ UNCHANGED <<shared, player, status>>]_vars

\* an intent was taken without a connection while the controls were enabled
\* and a player was loaded
C32_Witness == ev.kind = "intent" /\ ws = 0 /\ controls /\ has_player

\* C33: in the Qt client a toggle of play / pause taken on a live connection
\* with a player loaded, the engine accepting what it is told, writes exactly
\* one control message - PAUSE when the player was playing before, PLAY when
\* it was paused - and writes no control message when the engine has no pause
\* flag to give.
C33_ToggleReportsNewState ==
    [][\A avail \in BOOLEAN :
         (/\ ws # 0
          /\ ws \in open
          /\ has_player
          /\ GuiToggle(avail, TRUE, avail))
           => IF avail
              THEN /\ Len(sent') = 1
                   /\ sent'[1].type = "control"
                   /\ sent'[1].action = (IF player.paused THEN "PLAY" ELSE "PAUSE")
              ELSE sent' = <<>>]_vars

\* C34: in the Qt client at most one UI-tick update is in flight - a tick
\* starts one only when none is running, and only starts and ends of updates
\* move the _ui_tick_running guard; no tick starts an update while a connect
\* / disconnect toggle is in progress; an update that ends leaves the guard
\* cleared; and an update writes no message and gives the player no command.
C34_TickGuarded ==
    [][/\ ev'.kind = "tick" => (~ui_tick_running /\ ui_tick_running' /\ ~connecting)
       /\ ev'.kind = "tickupdate"
            => /\ ui_tick_running /\ ~ui_tick_running'
               /\ sent' = <<>>
               /\ CommandsOf(calls') = <<>>
               /\ player' = player
       /\ ui_tick_running' # ui_tick_running => ev'.kind \in {"tick", "tickupdate"}]_vars

\* an update has ended on a live connection after it asked the player for
\* its position
C34_Witness ==
    /\ ev.kind = "tickupdate"
    /\ ~ui_tick_running
    /\ ws # 0
    /\ Has(calls, "time_pos=value")

====
